---- MODULE Spec2Model ----
(***************************************************************************)
(* Model of mgo, a command-line manager of a local Go installation.        *)
(* Strings are sequences of one-character strings; a Python value that may *)
(* be None is a set with at most one element ({} is None).                 *)
(***************************************************************************)
EXTENDS Integers, Sequences, FiniteSets, TLC

\* ------------------------------------------------------------------ bounds
\* longest release list the remote feed returns in the model
MaxLen == 3
\* largest --count the available command is given in the model
MaxCount == 5

\* ---------------------------------------------------------- Python values
None == {}
Some(v) == {v}
Get(o) == CHOOSE v \in o : TRUE
\* truth value of an optional boolean (None and False are falsy)
Truthy(o) == TRUE \in o

Digit == {"0", "1", "2", "3", "4", "5", "6", "7", "8", "9"}
Letter == {"a", "b", "c", "d", "e", "f", "g", "h", "i", "j", "k", "l", "m",
           "n", "o", "p", "q", "r", "s", "t", "u", "v", "w", "x", "y", "z"}
\* the class \w of the regular expressions
Word == Digit \cup Letter \cup {"_"}

DigitVal(c) ==
  CASE c = "0" -> 0 [] c = "1" -> 1 [] c = "2" -> 2 [] c = "3" -> 3
    [] c = "4" -> 4 [] c = "5" -> 5 [] c = "6" -> 6 [] c = "7" -> 7
    [] c = "8" -> 8 [] c = "9" -> 9

\* int(s) for a non-empty string of decimal digits
RECURSIVE int(_)
int(s) ==
  IF Len(s) = 0 THEN 0
  ELSE 10 * int(SubSeq(s, 1, Len(s) - 1)) + DigitVal(s[Len(s)])

\* str(n) for n >= 0
RECURSIVE str(_)
str(n) ==
  LET d == <<"0", "1", "2", "3", "4", "5", "6", "7", "8", "9">>[(n % 10) + 1]
  IN IF n < 10 THEN <<d>> ELSE str(n \div 10) \o <<d>>

Max(S) == CHOOSE m \in S : \A n \in S : n <= m

\* s.find(sub) >= 0
Contains(s, sub) ==
  \E i \in 1..(Len(s) - Len(sub) + 1) : SubSeq(s, i, i + Len(sub) - 1) = sub

\* s.find(sub) == 0
StartsWith(s, sub) ==
  Len(s) >= Len(sub) /\ SubSeq(s, 1, Len(sub)) = sub

\* s.endswith(sub)
EndsWith(s, sub) ==
  Len(s) >= Len(sub) /\ SubSeq(s, Len(s) - Len(sub) + 1, Len(s)) = sub

\* greedy repetition: first index at or after i whose character is not in
\* class (Len(s) + 1 when the run reaches the end of the string)
RunEnd(s, i, class) ==
  CHOOSE k \in i..(Len(s) + 1) :
    /\ \A j \in i..(k - 1) : s[j] \in class
    /\ (k = Len(s) + 1 \/ s[k] \notin class)

\* the mandatory part (\d+)\.(\d+) matches at position i
PrefixAt(s, i) ==
  /\ s[i] \in Digit
  /\ LET j == RunEnd(s, i, Digit)
     IN /\ j + 1 <= Len(s)
        /\ s[j] = "."
        /\ s[j + 1] \in Digit

\* the groups 0..4 of a match that starts at i, whose major ends before j,
\* whose minor ends before m, whose patch is at p..q-1 and whose suffix is at
\* q..e-1 (group 3 and group 4 are None when empty)
Groups(ver, i, j, m, p, q, e) ==
  [g0 |-> SubSeq(ver, i, e - 1),
   g1 |-> SubSeq(ver, i, j - 1),
   g2 |-> SubSeq(ver, j + 1, m - 1),
   g3 |-> IF q > p THEN Some(SubSeq(ver, p, q - 1)) ELSE None,
   g4 |-> IF e > q THEN Some(SubSeq(ver, q, e - 1)) ELSE None]

\* (\w+)* after the patch: the longest run of word characters
MatchSuffix(ver, i, j, m, p, q) ==
  Groups(ver, i, j, m, p, q, RunEnd(ver, q, Word))

\* (\d+)? after the optional dot: the longest run of digits
MatchPatch(ver, i, j, m, p) ==
  MatchSuffix(ver, i, j, m, p, RunEnd(ver, p, Digit))

\* \.? after the minor: a dot when there is one
MatchDot(ver, i, j, m) ==
  MatchPatch(ver, i, j, m,
             IF m <= Len(ver) /\ ver[m] = "." THEN m + 1 ELSE m)

\* (\d+) after the first dot: the longest run of digits
MatchMinor(ver, i, j) ==
  MatchDot(ver, i, j, RunEnd(ver, j + 1, Digit))

\* the greedy match that starts at position i
MatchAt(ver, i) ==
  MatchMinor(ver, i, RunEnd(ver, i, Digit))

\* re.search('(\d+)\.(\d+)\.?(\d+)?(\w+)*', ver): the leftmost match, each
\* group greedy; a set holding the groups 0..4, or None
Search(ver) ==
  IF \E i \in 1..Len(ver) : PrefixAt(ver, i)
  THEN Some(MatchAt(ver, CHOOSE a \in 1..Len(ver) :
                           PrefixAt(ver, a)
                             /\ \A b \in 1..(a - 1) : ~PrefixAt(ver, b)))
  ELSE None

\* the dictionary parse_version builds from the groups of a match
VersionInfo(matches) ==
  [version |-> matches.g0,
   major |-> int(matches.g1),
   minor |-> int(matches.g2),
   patch |-> IF matches.g3 # None THEN int(Get(matches.g3)) ELSE 0,
   is_beta |->
     IF matches.g4 # None
     THEN Some(Contains(Get(matches.g4), <<"b", "e", "t", "a">>))
     ELSE None,
   is_release_candidate |->
     IF matches.g4 # None
     THEN Some(Contains(Get(matches.g4), <<"r", "c">>))
     ELSE None]

\* the dictionary of a found match, None when re.search found none
InfoOfMatch(matches) ==
  IF matches # None THEN Some(VersionInfo(Get(matches))) ELSE None

\* util.parse_version: the version record, or None
parse_version(ver) == InfoOfMatch(Search(ver))

\* util.compare_versions on two version records
compare_versions(ver_info1, ver_info2) ==
  0 + 100000 * (ver_info1.major - ver_info2.major)
    + 10 * (ver_info1.minor - ver_info2.minor)
    + (ver_info1.patch - ver_info2.patch)
    - (IF Truthy(ver_info1.is_beta) THEN 1 ELSE 0)
    - (IF Truthy(ver_info1.is_release_candidate) THEN 2 ELSE 0)
    + (IF Truthy(ver_info2.is_beta) THEN 1 ELSE 0)
    + (IF Truthy(ver_info2.is_release_candidate) THEN 2 ELSE 0)

\* mgo.compare_versions, the copy of the function in the one-file script:
\* the channel adjustments have the opposite signs
mgo_compare_versions(ver_info1, ver_info2) ==
  0 + 100000 * (ver_info1.major - ver_info2.major)
    + 10 * (ver_info1.minor - ver_info2.minor)
    + (ver_info1.patch - ver_info2.patch)
    + (IF Truthy(ver_info1.is_beta) THEN 1 ELSE 0)
    + (IF Truthy(ver_info1.is_release_candidate) THEN 2 ELSE 0)
    - (IF Truthy(ver_info2.is_beta) THEN 1 ELSE 0)
    - (IF Truthy(ver_info2.is_release_candidate) THEN 2 ELSE 0)

go == <<"g", "o">>

\* ------------------------------------------------- results of an operation
\* a normal return of value v after printing the lines out
Return(v, out) == [exc |-> None, value |-> v, out |-> out]
\* an exception of class e that leaves the function, after printing out
Raise(e, out) == [exc |-> Some(e), value |-> None, out |-> out]
\* a printed line: a fixed text followed by a variable string
Line(msg, arg) == [msg |-> msg, arg |-> arg]

\* should_update after the two calls of parse_version; subscripting the
\* None that parse_version returns for a string without a match is a
\* TypeError
Decide(ver_info1, ver_info2, allow_preview) ==
  IF ver_info1 = None \/ ver_info2 = None
  THEN Raise("TypeError", <<>>)
  ELSE IF compare_versions(Get(ver_info1), Get(ver_info2)) < 0
  THEN IF Truthy(Get(ver_info2).is_beta)
          \/ Truthy(Get(ver_info2).is_release_candidate)
       THEN Return(allow_preview, <<>>)
       ELSE Return(TRUE, <<>>)
  ELSE Return(FALSE, <<>>)

\* util.should_update on two version strings
should_update(ver1, ver2, allow_preview) ==
  Decide(parse_version(ver1), parse_version(ver2), allow_preview)

\* util.get_go_releases on the tags the remote feed answers with: the list,
\* or None when the feed holds no tag
get_go_releases(tags) ==
  IF Len(tags) > 0 THEN Some(tags) ELSE None

\* list.index: position of the first occurrence (1-based), 0 when absent
Index(list, v) ==
  IF \E k \in 1..Len(list) : list[k] = v
  THEN CHOOSE k \in 1..Len(list) :
         list[k] = v /\ \A j \in 1..(k - 1) : list[j] # v
  ELSE 0

\* the body of the loop of get_update_version for the candidate at position
\* k, r is what should_update gave for it
RECURSIVE ScanCandidates(_, _, _, _, _)
VisitCandidate(installed_version, releases, index, k, r, allow_preview) ==
  IF r.exc # None THEN r
  ELSE IF r.value THEN Return(Some(releases[k]), <<>>)
  ELSE ScanCandidates(installed_version, releases, index, k - 1,
                      allow_preview)

\* the loop of get_update_version over the candidates releases[index+1:],
\* last one first; k is the position visited next
ScanCandidates(installed_version, releases, index, k, allow_preview) ==
  IF k <= index
  THEN Return(None, <<>>)
  ELSE VisitCandidate(installed_version, releases, index, k,
                      should_update(installed_version, releases[k],
                                    allow_preview),
                      allow_preview)

\* get_update_version once both values are fetched: releases is what
\* get_go_releases returned; None has no index method, and a list without
\* the installed version makes index raise the ValueError that is caught
SelectUpdate(installed, releases, allow_preview) ==
  IF releases = None
  THEN Raise("AttributeError", <<>>)
  ELSE IF installed = None \/ Index(Get(releases), Get(installed)) = 0
  THEN Return(None, <<Line("Error interpreting go version scheme", <<>>)>>)
  ELSE ScanCandidates(Get(installed), Get(releases),
                      Index(Get(releases), Get(installed)),
                      Len(Get(releases)), allow_preview)

\* util.get_update_version; installed is what get_installed_go_version
\* returned (None when `go version` printed no version), feed is the answer
\* of the remote: [err, tags]
get_update_version(installed, feed, allow_preview) ==
  IF feed.err # None
  THEN Return(None, <<Line("Could not get release info from Github", <<>>)>>)
  ELSE SelectUpdate(installed, get_go_releases(feed.tags), allow_preview)

\* the body of the loop of get_go_release for the entry at position k,
\* ver_info is what parse_version gave for it
RECURSIVE ScanReleases(_, _, _)
VisitRelease(releases, k, ver_info, allow_preview) ==
  IF ver_info = None THEN Raise("TypeError", <<>>)
  ELSE IF Truthy(Get(ver_info).is_beta)
          \/ Truthy(Get(ver_info).is_release_candidate)
  THEN IF allow_preview
       THEN Return(Some(releases[k]), <<>>)
       ELSE ScanReleases(releases, k - 1, allow_preview)
  ELSE Return(Some(releases[k]), <<>>)

\* the loop of get_go_release, k is the position visited next
ScanReleases(releases, k, allow_preview) ==
  IF k = 0
  THEN Return(None, <<>>)
  ELSE VisitRelease(releases, k, parse_version(releases[k]), allow_preview)

\* get_go_release once the list is fetched
LatestOf(releases, allow_preview) ==
  IF releases # None
  THEN ScanReleases(Get(releases), Len(Get(releases)), allow_preview)
  ELSE Return(None, <<>>)

\* util.get_go_release; a feed that cannot be decoded raises in
\* get_go_releases and nothing here catches it
get_go_release(feed, allow_preview) ==
  IF feed.err # None
  THEN Raise(Get(feed.err), <<>>)
  ELSE LatestOf(get_go_releases(feed.tags), allow_preview)

\* check_command after the call of get_update_version
PrintUpdate(version) ==
  IF version.exc # None THEN version
  ELSE IF version.value # None /\ Len(Get(version.value)) > 0
  THEN Return(None, version.out \o <<Line("", Get(version.value))>>)
  ELSE Return(None, version.out \o <<Line("No update available", <<>>)>>)

\* commands.check_command
check_command(installed, feed, allow_preview) ==
  PrintUpdate(get_update_version(installed, feed, allow_preview))

\* list[:stop:-1] of Python: a negative stop counts from the end, and what
\* is still negative is clamped to before the first element
RECURSIVE Downto(_, _, _)
Downto(list, k, stop) ==
  IF k <= stop THEN <<>>
  ELSE <<list[k + 1]>> \o Downto(list, k - 1, stop)

\* the stop index of a slice with a negative step, as CPython adjusts it
AdjustStop(stop, length) ==
  IF stop < 0
  THEN (IF stop + length < 0 THEN -1 ELSE stop + length)
  ELSE (IF stop >= length THEN length - 1 ELSE stop)

SliceFromEnd(list, stop) ==
  Downto(list, Len(list) - 1, AdjustStop(stop, Len(list)))

\* one printed line per element of list
RECURSIVE PrintAll(_)
PrintAll(list) ==
  IF Len(list) = 0 THEN <<>>
  ELSE <<Line("", Head(list))>> \o PrintAll(Tail(list))

\* available_command once the list is fetched
PrintLatest(releases, list_size) ==
  IF releases # None
  THEN Return(None,
              PrintAll(SliceFromEnd(Get(releases),
                                    Len(Get(releases)) - list_size - 1)))
  ELSE Return(None, <<>>)

\* commands.available_command; count is the --count argument (a string of
\* digits, or None)
available_command(feed, count) ==
  IF feed.err # None
  THEN Raise(Get(feed.err), <<>>)
  ELSE PrintLatest(get_go_releases(feed.tags),
                   IF count # None /\ Len(Get(count)) > 0
                   THEN int(Get(count)) ELSE 10)

\* the available branch of mgo.run: int(None) is a TypeError, and a count
\* of 0 is replaced by 10
mgo_available(feed, count) ==
  IF feed.err # None
  THEN Raise(Get(feed.err), <<>>)
  ELSE IF get_go_releases(feed.tags) = None THEN Return(None, <<>>)
  ELSE IF count = None THEN Raise("TypeError", <<>>)
  ELSE PrintLatest(get_go_releases(feed.tags),
                   IF int(Get(count)) # 0 THEN int(Get(count)) ELSE 10)

\* ---------------------------------------------------------------- platform
UpperCase == <<"A", "B", "C", "D", "E", "F", "G", "H", "I", "J", "K", "L", "M",
               "N", "O", "P", "Q", "R", "S", "T", "U", "V", "W", "X", "Y", "Z">>
LowerCase == <<"a", "b", "c", "d", "e", "f", "g", "h", "i", "j", "k", "l", "m",
               "n", "o", "p", "q", "r", "s", "t", "u", "v", "w", "x", "y", "z">>

\* str.lower
lower(s) ==
  [i \in 1..Len(s) |->
     IF \E k \in 1..26 : UpperCase[k] = s[i]
     THEN LowerCase[CHOOSE k \in 1..26 : UpperCase[k] = s[i]]
     ELSE s[i]]

\* the strings of the platform tables
linux == <<"l", "i", "n", "u", "x">>
windows == <<"w", "i", "n", "d", "o", "w", "s">>
darwin == <<"d", "a", "r", "w", "i", "n">>
tar_gz == <<".", "t", "a", "r", ".", "g", "z">>
zip == <<".", "z", "i", "p">>
pkg == <<".", "p", "k", "g">>
amd64 == <<"a", "m", "d", "6", "4">>
x86_64 == <<"x", "8", "6", "_", "6", "4">>
aarch64 == <<"a", "a", "r", "c", "h", "6", "4">>
arm64 == <<"a", "r", "m", "6", "4">>
armv6l == <<"a", "r", "m", "v", "6", "l">>
i386 == <<"3", "8", "6">>

\* util.archMap, as the set of its (key, value) pairs
archMap ==
  {<<<<"A", "M", "D", "6", "4">>, amd64>>,
   <<x86_64, amd64>>,
   <<<<"i", "3", "8", "6">>, i386>>,
   <<<<"i", "6", "8", "6">>, i386>>,
   <<i386, i386>>,
   <<aarch64, arm64>>,
   <<arm64, arm64>>,
   <<<<"a", "r", "m">>, armv6l>>,
   <<armv6l, armv6l>>}

\* util.extensionMap, as the set of its (key, value) pairs
extensionMap ==
  {<<linux, tar_gz>>, <<windows, zip>>, <<darwin, pkg>>}

HasKey(map, k) == \E e \in map : e[1] = k
Lookup(map, k) == (CHOOSE e \in map : e[1] = k)[2]

\* build_release_file_name without the failing lookups: an unknown machine
\* is used as it is and an unknown system gets the .tar.gz extension
build_release_file_name_unchecked(version, platform_system, platform_machine) ==
  LET system == lower(platform_system)
      arch == IF HasKey(archMap, platform_machine)
              THEN Lookup(archMap, platform_machine) ELSE platform_machine
      extension == IF HasKey(extensionMap, system)
                   THEN Lookup(extensionMap, system) ELSE tar_gz
      v == IF StartsWith(version, go) THEN version ELSE go \o version
  IN Return(Some(v \o <<".">> \o system \o <<"-">> \o arch \o extension),
            <<>>)

\* util.build_release_file_name on the values platform.system() and
\* platform.machine() return; a missing key of either map is a KeyError
build_release_file_name(version, platform_system, platform_machine) ==
  LET system == lower(platform_system)
  IN IF ~HasKey(archMap, platform_machine) THEN Raise("KeyError", <<>>)
     ELSE IF ~HasKey(extensionMap, system) THEN Raise("KeyError", <<>>)
     ELSE LET arch == Lookup(archMap, platform_machine)
              extension == Lookup(extensionMap, system)
              v == IF StartsWith(version, go) THEN version ELSE go \o version
          IN Return(Some(v \o <<".">> \o system \o <<"-">> \o arch
                           \o extension), <<>>)

\* s.rindex(sub): 0-based position of the last occurrence, -1 when there
\* is none (where Python raises ValueError)
RIndex(s, sub) ==
  LET at == {i \in 1..(Len(s) - Len(sub) + 1) :
               SubSeq(s, i, i + Len(sub) - 1) = sub}
  IN IF at = {} THEN -1 ELSE Max(at) - 1

\* os.sep of the host
os_sep(platform_system) ==
  IF lower(platform_system) = windows THEN <<"\\">> ELSE <<"/">>

\* util.remove_installation up to the call of shutil.rmtree: which is what
\* shutil.which('go') returned; value is [go_location, parent_location]
\* (go_location None when nothing is to be removed)
remove_installation(which, sep) ==
  IF which # None /\ Len(Get(which)) > 0
  THEN LET i == RIndex(Get(which), sep \o <<"b", "i", "n">>)
       IN IF i < 0 THEN Raise("ValueError", <<>>)
          ELSE LET go_location == SubSeq(Get(which), 1, i)
                   j == RIndex(go_location, sep \o go)
               IN IF j < 0 THEN Raise("ValueError", <<>>)
                  ELSE Return([go_location |->
                                 IF Len(go_location) > 0
                                 THEN Some(go_location) ELSE None,
                               parent_location |->
                                 Some(SubSeq(go_location, 1, j))], <<>>)
  ELSE Return([go_location |-> None, parent_location |-> None], <<>>)

\* util.extract_file: the kind of archive it opens for name, None when it
\* opens nothing
extract_file(name) ==
  IF EndsWith(name, tar_gz) THEN Some("tarfile")
  ELSE IF EndsWith(name, zip) THEN Some("zipfile")
  ELSE None

\* ------------------------------------------------------------------ inputs
beta1 == <<"b", "e", "t", "a", "1">>
rc1 == <<"r", "c", "1">>
dev == <<"d", "e", "v">>

\* a tag of the Go repository: go<major>.<minor>[.<patch>][<suffix>]
MkTag(prefix, major, minor, patch, suffix) ==
  prefix \o str(major) \o <<".">> \o str(minor)
    \o (IF patch # None THEN <<".">> \o str(Get(patch)) ELSE <<>>)
    \o suffix

Majors == {1, 2}
Minors == {20, 21}
Patches == {None, Some(0), Some(1), Some(12)}
Suffixes == {<<>>, beta1, rc1, dev}

\* version strings that parse
Versions ==
  {MkTag(go, ma, mi, pa, su) :
     ma \in Majors, mi \in Minors, pa \in Patches, su \in Suffixes}

\* strings without a major.minor prefix
Unparseable == {<<>>, go \o <<"1">>, <<"b", "e", "t", "a">>}

\* strings given to parse_version: tags, bare versions, text around a
\* version, strings that do not parse
ParseInputs ==
  Versions \cup Unparseable
    \cup {MkTag(<<>>, 1, mi, pa, su) :
            mi \in Minors, pa \in Patches, su \in Suffixes}
    \cup {<<"v", "1", "2", "x", "3", ".", "4", ".", "b", "e", "t", "a">>,
          <<"g", "o", " ">> \o MkTag(go, 1, 21, Some(1), <<>>)
            \o <<" ", "l", "i", "n", "u", "x">>}

\* the tags release lists are made of: an old release with a two-digit
\* patch, stable releases, previews, an unknown suffix, the tag go1
ListTags ==
  {MkTag(go, 1, 20, Some(12), <<>>), MkTag(go, 1, 21, None, <<>>),
   MkTag(go, 1, 21, Some(1), <<>>), MkTag(go, 1, 22, None, beta1),
   MkTag(go, 1, 22, None, rc1), MkTag(go, 1, 22, None, dev),
   go \o <<"1">>}

\* the release lists of at most MaxLen tags
Lists == UNION {[1..n -> ListTags] : n \in 0..MaxLen}

\* answers of the remote feed
Feeds ==
  {[err |-> None, tags |-> l] : l \in Lists}
    \cup {[err |-> Some("JSONDecodeError"), tags |-> <<>>]}

\* what get_installed_go_version can return: a match of
\* go(\d+)\.(\d+)\.?(\d+)?(\w+)*, or None
InstalledVersions ==
  {Some(t) : t \in {u \in ListTags : parse_version(u) # None}} \cup {None}

\* values of --count: absent, or the decimal string of 0..MaxCount
Counts == {None} \cup {Some(str(n)) : n \in 0..MaxCount}

\* values of platform.system() and platform.machine()
Systems ==
  {<<"L", "i", "n", "u", "x">>,
   <<"W", "i", "n", "d", "o", "w", "s">>,
   <<"D", "a", "r", "w", "i", "n">>,
   <<"F", "r", "e", "e", "B", "S", "D">>}
Machines == {x86_64, aarch64, <<"r", "i", "s", "c", "v", "6", "4">>}

\* what shutil.which('go') finds on a host where `go version` ran
GoPaths(platform_system) ==
  IF lower(platform_system) = windows
  THEN {<<"C", ":", "\\", "g", "o", "\\", "b", "i", "n">>
          \o <<"\\", "g", "o", ".", "E", "X", "E">>,
        <<"C", ":", "\\", "P", "r", "o", "g", "r", "a", "m", " ">>
          \o <<"F", "i", "l", "e", "s", "\\", "G", "o", "\\", "b", "i", "n">>
          \o <<"\\", "g", "o", ".", "E", "X", "E">>}
  ELSE {<<"/", "u", "s", "r", "/", "l", "o", "c", "a", "l", "/", "g", "o">>
          \o <<"/", "b", "i", "n", "/", "g", "o">>,
        <<"/", "u", "s", "r", "/", "b", "i", "n", "/", "g", "o">>}

\* the --version argument of install: absent, or a string
VersionArgs ==
  {None} \cup {Some(t) : t \in ListTags}
    \cup {Some(MkTag(<<>>, 1, 21, Some(1), <<>>))}

\* the path argument of install
InstallPaths == {<<"/", "o", "p", "t">>, <<"s", "d", "k">>}

\* ------------------------------------------------------------------- state
VARIABLES
  op,        \* the function this run called directly, "none" when none
  args,      \* the inputs it was given
  res,       \* what it returned, raised and printed
  cmd,       \* the command in progress: "none", "update" or "install"
  pc,        \* the step the command is at
  host,      \* [system, machine] as read from platform, None before
  target,    \* the version to fetch, None before it is known
  name,      \* the artifact file name, None before it is built
  location,  \* the directory the artifact is extracted into, None before
  effects,   \* the downloads and file system operations attempted so far
  out,       \* the lines the command printed
  exc        \* the exception that ended the command, None when none did

callvars == <<op, args, res>>
flowvars == <<cmd, pc, host, target, name, location, effects, out, exc>>
vars == <<op, args, res, cmd, pc, host, target, name, location, effects, out,
          exc>>

Init ==
  /\ op = "none"
  /\ args = <<>>
  /\ res = <<>>
  /\ cmd = "none"
  /\ pc = "idle"
  /\ host = None
  /\ target = None
  /\ name = None
  /\ location = None
  /\ effects = <<>>
  /\ out = <<>>
  /\ exc = None

\* ------------------------------------------------- calls of the functions
CallParseVersion ==
  /\ op = "none"
  /\ \E v \in ParseInputs :
       /\ args' = [ver |-> v]
       /\ res' = parse_version(v)
  /\ op' = "parse_version"
  /\ UNCHANGED flowvars

CallCompareVersions ==
  /\ op = "none"
  /\ \E a \in Versions, b \in Versions :
       /\ args' = [ver1 |-> a, ver2 |-> b]
       /\ res' = compare_versions(Get(parse_version(a)),
                                  Get(parse_version(b)))
  /\ op' = "compare_versions"
  /\ UNCHANGED flowvars

CallMgoCompareVersions ==
  /\ op = "none"
  /\ \E a \in Versions, b \in Versions :
       /\ args' = [ver1 |-> a, ver2 |-> b]
       /\ res' = mgo_compare_versions(Get(parse_version(a)),
                                      Get(parse_version(b)))
  /\ op' = "mgo.compare_versions"
  /\ UNCHANGED flowvars

CallShouldUpdate ==
  /\ op = "none"
  /\ \E a \in Versions \cup Unparseable, b \in Versions \cup Unparseable,
        p \in BOOLEAN :
       /\ args' = [ver1 |-> a, ver2 |-> b, allow_preview |-> p]
       /\ res' = should_update(a, b, p)
  /\ op' = "should_update"
  /\ UNCHANGED flowvars

CallGetUpdateVersion ==
  /\ op = "none"
  /\ \E i \in InstalledVersions, f \in Feeds, p \in BOOLEAN :
       /\ args' = [installed |-> i, feed |-> f, allow_preview |-> p]
       /\ res' = get_update_version(i, f, p)
  /\ op' = "get_update_version"
  /\ UNCHANGED flowvars

CallCheckCommand ==
  /\ op = "none"
  /\ \E i \in InstalledVersions, f \in Feeds, p \in BOOLEAN :
       /\ args' = [installed |-> i, feed |-> f, allow_preview |-> p]
       /\ res' = check_command(i, f, p)
  /\ op' = "check_command"
  /\ UNCHANGED flowvars

CallGetGoRelease ==
  /\ op = "none"
  /\ \E f \in Feeds, p \in BOOLEAN :
       /\ args' = [feed |-> f, allow_preview |-> p]
       /\ res' = get_go_release(f, p)
  /\ op' = "get_go_release"
  /\ UNCHANGED flowvars

CallAvailableCommand ==
  /\ op = "none"
  /\ \E f \in Feeds, c \in Counts :
       /\ args' = [feed |-> f, count |-> c]
       /\ res' = available_command(f, c)
  /\ op' = "available_command"
  /\ UNCHANGED flowvars

CallMgoAvailable ==
  /\ op = "none"
  /\ \E f \in Feeds, c \in Counts :
       /\ args' = [feed |-> f, count |-> c]
       /\ res' = mgo_available(f, c)
  /\ op' = "mgo.available"
  /\ UNCHANGED flowvars

Next ==
  \/ CallParseVersion
  \/ CallCompareVersions
  \/ CallMgoCompareVersions
  \/ CallShouldUpdate
  \/ CallGetUpdateVersion
  \/ CallCheckCommand
  \/ CallGetGoRelease
  \/ CallAvailableCommand
  \/ CallMgoAvailable

Spec == Init /\ [][Next]_vars

\* --------------------------------------- the update and the install flows
Effect(o, a, ok) == [op |-> o, arg |-> a, ok |-> ok]

\* the command ends with an exception nothing catches
Crash(e) ==
  /\ pc' = "crashed"
  /\ exc' = Some(e)

\* update_go_version from the result of get_update_version up to the call
\* of build_release_file_name; update_command catches no exception of
\* get_update_version
UpdateFrom(version) ==
  IF version.exc # None
  THEN /\ Crash(Get(version.exc))
       /\ out' = version.out
       /\ UNCHANGED target
  ELSE IF version.value # None /\ Len(Get(version.value)) > 0
  THEN /\ pc' = "build_name"
       /\ target' = version.value
       /\ out' = version.out
                   \o <<Line("Version  available", Get(version.value)),
                        Line("Downloading file...", <<>>)>>
       /\ UNCHANGED exc
  ELSE /\ pc' = "done"
       /\ out' = Append(version.out,
                        Line("Your already have the latest version", <<>>))
       /\ UNCHANGED <<target, exc>>

\* update_command: update_go_version up to the call of
\* build_release_file_name
UpdateBegin ==
  /\ pc = "idle"
  /\ cmd' = "update"
  /\ \E i \in InstalledVersions, f \in Feeds, p \in BOOLEAN :
       /\ effects' = <<Effect("urlopen", <<>>, f.err = None)>>
       /\ UpdateFrom(get_update_version(i, f, p))
  /\ UNCHANGED <<host, name, location>>
  /\ UNCHANGED callvars

\* install_go_version from the target version to the call of
\* build_release_file_name: a target that does not parse ends the command
\* silently
InstallTarget(target_version) ==
  /\ target' = target_version
  /\ pc' = IF parse_version(Get(target_version)) # None
           THEN "build_name" ELSE "done"
  /\ UNCHANGED <<out, exc>>

\* install_go_version without --version, from the result of get_go_release:
\* install_command catches the RuntimeError and prints it
InstallLatest(release) ==
  IF release.exc # None
  THEN /\ Crash(Get(release.exc))
       /\ UNCHANGED <<target, out>>
  ELSE IF release.value # None /\ Len(Get(release.value)) > 0
  THEN InstallTarget(release.value)
  ELSE /\ pc' = "done"
       /\ out' = Append(out, Line("Could not find a go release", <<>>))
       /\ UNCHANGED <<target, exc>>

\* install_command: install_go_version up to the call of
\* build_release_file_name
InstallBegin ==
  /\ pc = "idle"
  /\ cmd' = "install"
  /\ \E install_path \in InstallPaths, version \in VersionArgs,
        f \in Feeds, p \in BOOLEAN :
       /\ location' = Some(install_path)
       /\ IF version # None /\ Len(Get(version)) > 0
          THEN /\ InstallTarget(version)
               /\ UNCHANGED effects
          ELSE /\ effects' = <<Effect("urlopen", <<>>, f.err = None)>>
               /\ InstallLatest(get_go_release(f, p))
  /\ UNCHANGED <<host, name>>
  /\ UNCHANGED callvars

\* the call of build_release_file_name of either flow; neither command
\* catches its KeyError
BuildName ==
  /\ pc = "build_name"
  /\ \E s \in Systems, m \in Machines :
       LET r == build_release_file_name(Get(target), s, m)
       IN /\ host' = Some([system |-> s, machine |-> m])
          /\ IF r.exc # None
             THEN /\ Crash(Get(r.exc))
                  /\ UNCHANGED <<name, out>>
             ELSE /\ pc' = "download"
                  /\ name' = r.value
                  /\ out' = IF cmd = "install"
                            THEN Append(out, Line("Downloading go version ",
                                                  Get(target)))
                            ELSE out
                  /\ UNCHANGED exc
  /\ UNCHANGED <<cmd, target, location, effects>>
  /\ UNCHANGED callvars

\* donwload_file: urlretrieve succeeds or raises HTTPError, which only
\* install_command catches
Download ==
  /\ pc = "download"
  /\ \E ok \in BOOLEAN :
       /\ effects' = Append(effects,
                            Effect("urlretrieve", Get(name), ok))
       /\ IF ok
          THEN /\ pc' = IF cmd = "update" THEN "remove" ELSE "mkdir"
               /\ out' = Append(out, Line("", <<>>))
               /\ UNCHANGED exc
          ELSE IF cmd = "install"
          THEN /\ pc' = "done"
               /\ out' = Append(out, Line("HTTPError", <<>>))
               /\ UNCHANGED exc
          ELSE /\ Crash("HTTPError")
               /\ UNCHANGED out
  /\ UNCHANGED <<cmd, host, target, name, location>>
  /\ UNCHANGED callvars

\* update: remove_installation
Remove ==
  /\ pc = "remove"
  /\ \E which \in GoPaths(Get(host).system), ok \in BOOLEAN :
       LET r == remove_installation(Some(which), os_sep(Get(host).system))
           printed == Append(out,
                             Line("Removing current installation...", <<>>))
       IN IF r.exc # None
          THEN /\ Crash(Get(r.exc))
               /\ out' = printed
               /\ UNCHANGED <<location, effects>>
          ELSE IF r.value.go_location = None
          THEN /\ pc' = "extract"
               /\ location' = r.value.parent_location
               /\ out' = printed
               /\ UNCHANGED <<effects, exc>>
          ELSE /\ effects' = Append(effects,
                                    Effect("rmtree",
                                           Get(r.value.go_location), ok))
               /\ IF ok
                  THEN /\ pc' = "extract"
                       /\ location' = r.value.parent_location
                       /\ out' = printed
                       /\ UNCHANGED exc
                  ELSE /\ pc' = "done"
                       /\ out' = Append(printed,
                                        Line("Failed. Need privileged permission.",
                                             <<>>))
                       /\ UNCHANGED <<location, exc>>
  /\ UNCHANGED <<cmd, host, target, name>>
  /\ UNCHANGED callvars

\* install: create the directory if it does not exist
Mkdir ==
  /\ pc = "mkdir"
  /\ \E isdir \in BOOLEAN, ok \in BOOLEAN :
       IF isdir
       THEN /\ ok
            /\ pc' = "extract"
            /\ UNCHANGED <<effects, out>>
       ELSE /\ effects' = Append(effects,
                                 Effect("mkdir", Get(location), ok))
            /\ IF ok
               THEN /\ pc' = "extract"
                    /\ UNCHANGED out
               ELSE /\ pc' = "done"
                    /\ out' = Append(out,
                                     Line("Failed. Need privileged permission.",
                                          <<>>))
  /\ UNCHANGED <<cmd, host, target, name, location, exc>>
  /\ UNCHANGED callvars

\* extract_file(name, location) of either flow
Extract ==
  /\ pc = "extract"
  /\ \E ok \in BOOLEAN :
       LET printed == Append(out, Line("Extracting file...", <<>>))
       IN IF extract_file(Get(name)) = None
          THEN /\ ok
               /\ pc' = "cleanup"
               /\ out' = printed
               /\ UNCHANGED effects
          ELSE /\ effects' = Append(effects,
                                    Effect("extractall", Get(location), ok))
               /\ IF ok
                  THEN /\ pc' = "cleanup"
                       /\ out' = printed
                  ELSE /\ pc' = "done"
                       /\ out' = Append(printed,
                                        Line("Failed. Need privileged permission.",
                                             <<>>))
  /\ UNCHANGED <<cmd, host, target, name, location, exc>>
  /\ UNCHANGED callvars

\* os.remove(name) and the closing messages of either flow
Cleanup ==
  /\ pc = "cleanup"
  /\ effects' = Append(effects, Effect("os.remove", Get(name), TRUE))
  /\ pc' = "done"
  /\ out' = out \o <<Line("Removing temporary file...", <<>>)>>
              \o (IF cmd = "update"
                  THEN <<Line("Go version updated", <<>>)>>
                  ELSE <<Line("Installation complete", <<>>),
                         Line("Make sure  is on your PATH",
                              Get(location)
                                \o os_sep(Get(host).system) \o go
                                \o os_sep(Get(host).system)
                                \o <<"b", "i", "n">>)>>)
  /\ UNCHANGED <<cmd, host, target, name, location, exc>>
  /\ UNCHANGED callvars

NextFlow ==
  \/ UpdateBegin
  \/ InstallBegin
  \/ BuildName
  \/ Download
  \/ Remove
  \/ Mkdir
  \/ Extract
  \/ Cleanup

SpecFlow == Init /\ [][NextFlow]_vars

\* ------------------------------------------------- notions of the claims
\* lexicographic order of the (major, minor, patch) triples
TripleLess(a, b) ==
  \/ a.major < b.major
  \/ a.major = b.major /\ a.minor < b.minor
  \/ a.major = b.major /\ a.minor = b.minor /\ a.patch < b.patch

TripleEqual(a, b) ==
  a.major = b.major /\ a.minor = b.minor /\ a.patch = b.patch

\* rank of the channel of a version record: stable 3, release candidate 2,
\* beta 1, any other suffix 0
ChannelRank(a) ==
  IF a.is_beta = None THEN 3
  ELSE IF Truthy(a.is_beta) THEN 1
  ELSE IF Truthy(a.is_release_candidate) THEN 2
  ELSE 0

IsPreview(a) == Truthy(a.is_beta) \/ Truthy(a.is_release_candidate)

Sign(n) == IF n < 0 THEN -1 ELSE IF n > 0 THEN 1 ELSE 0

Info(ver) == Get(parse_version(ver))

Min2(a, b) == IF a < b THEN a ELSE b

\* the last n elements of list, last one first
RECURSIVE LastReversed(_, _)
LastReversed(list, n) ==
  IF n = 0 THEN <<>>
  ELSE <<list[Len(list)]>>
         \o LastReversed(SubSeq(list, 1, Len(list) - 1), n - 1)

\* C1: whenever compare_versions was given two versions whose
\* (major, minor, patch) triples differ, its result is negative exactly when
\* the first triple is lexicographically smaller and positive exactly when
\* it is larger.
C1_NumericTripleOrder ==
  op \in {"compare_versions", "mgo.compare_versions"} =>
    LET a == Info(args.ver1)
        b == Info(args.ver2)
    IN ~TripleEqual(a, b) =>
         /\ (res < 0) <=> TripleLess(a, b)
         /\ (res > 0) <=> TripleLess(b, a)

\* C2: whenever compare_versions was given two versions with the same
\* triple, the sign of its result is the sign of the difference of the
\* channel ranks stable > releaseCandidate > beta > unknown suffix.
C2_ChannelTieBreak ==
  op \in {"compare_versions", "mgo.compare_versions"} =>
    LET a == Info(args.ver1)
        b == Info(args.ver2)
    IN TripleEqual(a, b) =>
         Sign(res) = Sign(ChannelRank(a) - ChannelRank(b))

\* C3: for parseable installed and candidate versions should_update returns
\* True exactly when the candidate's triple is strictly greater than the
\* installed one's and the candidate is no preview or previews are allowed.
C3_ShouldUpdateExactly ==
  (op = "should_update" /\ parse_version(args.ver1) # None
                        /\ parse_version(args.ver2) # None) =>
    /\ res.exc = None
    /\ res.value = (/\ TripleLess(Info(args.ver1), Info(args.ver2))
                    /\ (~IsPreview(Info(args.ver2)) \/ args.allow_preview))

\* the release list of a run holds the installed tag
InstalledFound(a) ==
  /\ a.feed.err = None
  /\ a.installed # None
  /\ Index(a.feed.tags, Get(a.installed)) # 0

\* positions after the installed tag whose entry should_update approves
Approved(a) ==
  {k \in (Index(a.feed.tags, Get(a.installed)) + 1)..Len(a.feed.tags) :
     LET r == should_update(Get(a.installed), a.feed.tags[k],
                            a.allow_preview)
     IN r.exc = None /\ r.value}

\* C4: when the installed tag occurs in the release list, get_update_version
\* returns the approved entry of the highest position after the installed
\* tag, nothing when no later entry is approved, and never the installed
\* entry.
C4_LastApprovedLaterEntry ==
  (op = "get_update_version" /\ InstalledFound(args)) =>
    /\ res.exc = None
    /\ res.value = (IF Approved(args) = {} THEN None
                    ELSE Some(args.feed.tags[Max(Approved(args))]))
    /\ res.value # args.installed

\* C5: the version get_update_version returns never has a lower triple
\* than the installed version.
C5_NeverOlderThanInstalled ==
  (op = "get_update_version" /\ InstalledFound(args)
     /\ res.exc = None /\ res.value # None) =>
    ~TripleLess(Info(Get(res.value)), Info(Get(args.installed)))

\* a run whose installed version is not in the fetched release list
NotFound(a) ==
  /\ a.feed.err = None
  /\ a.feed.tags # <<>>
  /\ (a.installed = None \/ Index(a.feed.tags, Get(a.installed)) = 0)

\* a run whose installed version is found and no later release qualifies
AlreadyCurrent(a) ==
  /\ InstalledFound(a)
  /\ LET r == get_update_version(a.installed, a.feed, a.allow_preview)
     IN r.exc = None /\ r.value = None

\* the last line a command printed
Verdict(r) == r.out[Len(r.out)]

\* C6: what a NotFound run reports differs from what every AlreadyCurrent
\* run reports: the value get_update_version returns, and the verdict the
\* check command prints.
C6_NotFoundDistinguished ==
  /\ (op = "get_update_version" /\ NotFound(args)) =>
       \A i \in InstalledVersions, f \in Feeds :
         LET a == [installed |-> i, feed |-> f,
                   allow_preview |-> args.allow_preview]
         IN AlreadyCurrent(a) =>
              get_update_version(i, f, args.allow_preview).value # res.value
  /\ (op = "check_command" /\ NotFound(args)) =>
       \A i \in InstalledVersions, f \in Feeds :
         LET a == [installed |-> i, feed |-> f,
                   allow_preview |-> args.allow_preview]
         IN AlreadyCurrent(a) =>
              Verdict(check_command(i, f, args.allow_preview)) # Verdict(res)

\* positions of the entries without a suffix
StablePositions(tags) ==
  {k \in 1..Len(tags) :
     parse_version(tags[k]) # None /\ ChannelRank(Info(tags[k])) = 3}

\* C7: get_go_release returns the last stable entry when previews are not
\* allowed (nothing when there is none) and the last entry of the list when
\* they are (nothing when the list is empty).
C7_LatestRelease ==
  (op = "get_go_release" /\ args.feed.err = None) =>
    LET tags == args.feed.tags
    IN /\ res.exc = None
       /\ res.value =
            (IF args.allow_preview
             THEN (IF tags = <<>> THEN None ELSE Some(tags[Len(tags)]))
             ELSE (IF StablePositions(tags) = {} THEN None
                   ELSE Some(tags[Max(StablePositions(tags))])))

\* C8: for a non-empty release list of length T and a count N (10 when
\* absent) the available command prints the last min(N, T) entries, newest
\* first.
C8_AvailablePrintsLastN ==
  (op \in {"available_command", "mgo.available"} /\ args.feed.err = None
     /\ args.feed.tags # <<>>) =>
    LET tags == args.feed.tags
        N == IF args.count = None THEN 10 ELSE int(Get(args.count))
    IN /\ res.exc = None
       /\ res.out = PrintAll(LastReversed(tags, Min2(N, Len(tags))))

\* the host has an artifact mapping for its system and its machine
Supported(h) ==
  /\ \E e \in archMap : e[1] = h.machine
  /\ \E e \in extensionMap : e[1] = lower(h.system)

\* C9: in the update flow and in the install flow, once the platform lookup
\* has failed the command has halted, and no download of an artifact, no
\* removal and no extraction has been or is attempted (the request for the
\* release list is all it has done).
C9_HaltBeforeDownload ==
  (host # None /\ ~Supported(Get(host))) =>
    /\ pc = "crashed"
    /\ \A k \in 1..Len(effects) :
         effects[k].op \notin {"urlretrieve", "rmtree", "mkdir",
                               "extractall", "os.remove"}

\* an update that found a version and failed the platform lookup
C9_Witness ==
  /\ cmd = "update"
  /\ target # None
  /\ host # None
  /\ ~Supported(Get(host))
  /\ exc = Some("KeyError")

\* C10: parse_version, should_update, get_go_release and get_update_version
\* never raise, whatever strings and release lists they are given.
C10_CoreNeverRaises ==
  /\ op = "should_update" => res.exc = None
  /\ (op \in {"get_go_release", "get_update_version"}
        /\ args.feed.err = None) => res.exc = None
  /\ op = "parse_version" => Cardinality(res) <= 1

\* the host system is one of those extensionMap has an artifact for
SupportedSystem(h) == \E e \in extensionMap : e[1] = lower(h.system)

\* every removal of the installation attempted so far came after a download
\* of the artifact that completed
RemovalAfterDownload ==
  \A k \in 1..Len(effects) :
    effects[k].op = "rmtree" =>
      \E j \in 1..(k - 1) :
        effects[j].op = "urlretrieve" /\ effects[j].ok

\* the run removed the installation and printed 'Go version updated'
RemovedAndUpdated ==
  /\ \E k \in 1..Len(effects) : effects[k].op = "rmtree" /\ effects[k].ok
  /\ \E n \in 1..Len(out) : out[n] = Line("Go version updated", <<>>)

\* after the removal the artifact was extracted into the parent directory
\* of the installation removed
ExtractedAfterRemoval ==
  \E k \in 1..Len(effects) :
    /\ effects[k].op = "rmtree"
    /\ effects[k].ok
    /\ \E m \in (k + 1)..Len(effects) :
         /\ effects[m].op = "extractall"
         /\ effects[m].ok
         /\ location # None
         /\ effects[m].arg = Get(location)
         /\ effects[m].arg \o os_sep(Get(host).system) \o go
              = effects[k].arg

\* C11: on a host running linux, windows or darwin the update flow removes
\* the existing installation only after the download of the artifact has
\* completed, and a run that removed the installation and printed
\* 'Go version updated' has extracted the artifact into the parent directory
\* of the removed installation in between.
C11_RemoveThenExtract ==
  (cmd = "update" /\ host # None /\ SupportedSystem(Get(host))) =>
    /\ RemovalAfterDownload
    /\ RemovedAndUpdated => ExtractedAfterRemoval
====
